---- MODULE Spec2Model ----
(***************************************************************************)
(* A model of the knowledge-base search engine: the in-memory RAG engine   *)
(* (src/rag_engine.py, class RAGEngine) and the Flask handlers that drive  *)
(* it (src/backend/app.py).                                                *)
(*                                                                         *)
(* Representation choices                                                  *)
(*  - A file's extracted text is its list of words.  In the engine model a *)
(*    text is the record [topic, n]: n words about one topic, and a piece  *)
(*    words[lo:hi] of it is the record [topic, lo, hi].  chunk_text itself *)
(*    is also modelled on explicit word sequences (ChunkText).             *)
(*  - Embeddings are unit vectors in the plane at multiples of 45 degrees, *)
(*    named by their direction 0..7; cosine similarity is kept in          *)
(*    thousandths (1000 = 1.0, 707 = cos 45).                              *)
(*  - A confidence is the exact fraction num/den.                          *)
(*  - The handlers that only read (health_check, list_documents) are not   *)
(*    modelled.                                                            *)
(*  - Timestamps (indexed_at, uploaded_at, timestamp) are left out: no     *)
(*    operation reads them.  The character-level preview text[:400] is     *)
(*    not represented; an answer part carries the chunk's text.            *)
(***************************************************************************)
EXTENDS Integers, Sequences, FiniteSets, TLC

\* ------------------------------------------------------------------ bounds
\* Number of files ever saved by upload_documents (each gets a fresh uuid4).
MaxUploads == 3
\* Longest text (in characters) given to chunk_text in ChunkSpec.
MaxChars == 5
\* Largest chunk_size / overlap given to chunk_text in ChunkSpec.
MaxChunkSize == 3
\* Number of files ingested in ConcSpec.
MaxConcUploads == 2

\* -------------------------------------------------------- program constants
\* chunk_text's defaults, used by ingest_document.
DefaultChunkSize == 500
DefaultOverlap == 50
\* search()'s and the handler's default top_k.
DefaultTopK == 5
\* Number of chunks used as grounding context for the answer.
ContextChunks == 3
\* The high-confidence threshold 0.7, in thousandths.
BoostThreshold == 700

\* ------------------------------------------------------------------ inputs
\* The files that are uploaded: a name and the topic of the content.
Files == {[name |-> "a.txt", topic |-> 0], [name |-> "b.txt", topic |-> 2]}
\* Word counts of uploaded files: empty, short, and long enough for two chunks.
WordCounts == {0, 3, 460}
\* top_k values a request may carry (data.get('top_k', 5) takes any integer).
TopKs == {-1, 0, 1, DefaultTopK}
\* Query strings of a search request; "" is blank after strip().
Queries == {"", "q0"}
\* Document ids a DELETE request may name.
DocIdInputs == {"0", "1", "2", "9"}
Providers == {"none", "groq", "openai"}
\* What one call of the generation backend does.
Outcomes == {"ok", "timeout", "http_error", "malformed"}
\* The characters of the texts given to chunk_text in ChunkSpec.
Chars == {"a", "b", " "}

VARIABLES
    documents,   \* RAGEngine.documents: the catalog, a list of doc_info
    chunks,      \* RAGEngine.chunks: the stored fragments, in insertion order
    provider,    \* "none" when api_key is unset, else api_provider
    uploads,     \* number of uuid4 file ids drawn so far (names the filepath)
    resp,        \* the last HTTP response
    cin, cout,   \* ChunkSpec: chunk_text's arguments and result
    pcM, mut, pcS, srch  \* ConcSpec: the mutating and the searching request

storeVars == <<documents, chunks, provider, uploads>>
chunkVars == <<cin, cout>>
concVars == <<pcM, mut, pcS, srch>>
vars == <<documents, chunks, provider, uploads, resp, cin, cout, pcM, mut, pcS, srch>>

\* ----------------------------------------------------------------- helpers
Min(a, b) == IF a < b THEN a ELSE b
Max(a, b) == IF a > b THEN a ELSE b

Range(s) == {s[i] : i \in DOMAIN s}

\* str(n) for the small n the model reaches.
IdStr(n) == <<"0", "1", "2", "3", "4", "5", "6", "7", "8", "9">>[n + 1]

\* ------------------------------------------------------------ chunk_text
\* range(0, n, step) for step > 0: the start indices of the loop.
RECURSIVE PyRange(_, _, _)
PyRange(i, n, step) ==
    IF i >= n THEN <<>> ELSE <<i>> \o PyRange(i + step, n, step)

\* The slice bounds <<lo, hi>> (0-based, hi exclusive) of the chunks of an
\* n-word text: words[i:i + chunk_size] for i in range(0, n, chunk_size - overlap),
\* keeping a chunk only if it is not blank (words are never blank, so a chunk
\* is blank exactly when the slice is empty).
ChunkBounds(n, chunk_size, overlap) ==
    LET starts == PyRange(0, n, chunk_size - overlap)
        all == [k \in DOMAIN starts |-> <<starts[k], Min(starts[k] + chunk_size, n)>>]
        NonEmpty(b) == b[2] > b[1]
    IN SelectSeq(all, NonEmpty)

\* text.split(): the maximal runs of non-blank characters, in order.
RECURSIVE SplitAcc(_, _)
SplitAcc(text, cur) ==
    LET done == IF cur = <<>> THEN <<>> ELSE <<cur>>
    IN IF text = <<>> THEN done
       ELSE IF Head(text) = " " THEN done \o SplitAcc(Tail(text), <<>>)
       ELSE SplitAcc(Tail(text), Append(cur, Head(text)))

Split(text) == SplitAcc(text, <<>>)

\* ' '.join(words)
RECURSIVE Join(_)
Join(words) ==
    IF words = <<>> THEN <<>>
    ELSE IF Len(words) = 1 THEN words[1]
    ELSE words[1] \o <<" ">> \o Join(Tail(words))

\* chunk.strip() is not empty
NonBlank(chunk) == \E i \in DOMAIN chunk : chunk[i] # " "

\* chunk_text on a string (a sequence of characters): "ValueError" when
\* range() gets step 0, no chunk at all when the step is negative.
ChunkText(text, chunk_size, overlap) ==
    IF chunk_size - overlap = 0 THEN [raised |-> TRUE, chunks |-> <<>>]
    ELSE IF chunk_size - overlap < 0 THEN [raised |-> FALSE, chunks |-> <<>>]
    ELSE LET words == Split(text)
             n == Len(words)
             starts == PyRange(0, n, chunk_size - overlap)
             all == [k \in DOMAIN starts |->
                       Join(SubSeq(words, starts[k] + 1,
                                   Min(starts[k] + chunk_size, n)))]
         IN [raised |-> FALSE, chunks |-> SelectSeq(all, NonBlank)]

\* --------------------------------------------------------------- embedding
\* embedding_model.encode(text): a deterministic function of the text; a piece
\* that starts later in the file points one step further round.
Encode(text) == (text.topic + (IF text.lo = 0 THEN 0 ELSE 1)) % 8

QueryDir(q) == IF q = "q0" THEN 0 ELSE 1

\* cosine_similarity of two unit vectors 45 * d degrees apart, in thousandths.
CosineSimilarity(a, b) ==
    <<1000, 707, 0, -707, -1000, -707, 0, 707>>[((a - b) % 8) + 1]

NoResp == [op |-> "none", status |-> 0]

\* Spec takes every handler as one step: the executions in which requests
\* do not overlap, each handler starting when the previous response has left.
\* (ConcSpec interleaves the statements of overlapping requests.)
Ready == resp = NoResp

\* The response is sent to the client.
Reply ==
    /\ resp # NoResp
    /\ resp' = NoResp
    /\ UNCHANGED <<documents, chunks, provider, uploads, cin, cout, pcM, mut, pcS, srch>>

\* ------------------------------------------------------- ingest_document
\* doc_id = str(len(self.documents))
NextDocId(docs) == IdStr(Len(docs))

\* The chunks of a text of n words with the default chunk_size and overlap.
DocChunks(topic, n) ==
    LET b == ChunkBounds(n, DefaultChunkSize, DefaultOverlap)
    IN [k \in DOMAIN b |-> [topic |-> topic, lo |-> b[k][1], hi |-> b[k][2]]]

DocInfo(doc_id, filename, fp, nchunks) ==
    [id |-> doc_id, name |-> filename, filepath |-> fp, chunks |-> nchunks]

\* One stored fragment.  src is a history field (the filepath of the upload
\* that produced the fragment); no operation reads it.
ChunkRec(doc_id, filename, i, text, fp) ==
    [doc_id |-> doc_id, doc_name |-> filename, chunk_id |-> <<doc_id, i>>,
     text |-> text, embedding |-> Encode(text), src |-> fp]

\* upload_documents for one allowed file: save it under a fresh uuid4 path and
\* ingest it; an exception of ingest_document is reported as an error (207).
Upload(filename, topic, n) ==
    /\ Ready
    /\ uploads < MaxUploads
    /\ uploads' = uploads + 1
    /\ LET fp == uploads + 1
           doc_chunks == DocChunks(topic, n)
           doc_id == NextDocId(documents)
       IN IF n = 0 \/ doc_chunks = <<>>
          THEN /\ UNCHANGED <<documents, chunks>>
               /\ resp' = [op |-> "upload", status |-> 207,
                           total_documents |-> Len(documents)]
          ELSE /\ documents' = Append(documents,
                                      DocInfo(doc_id, filename, fp, Len(doc_chunks)))
               /\ chunks' = chunks \o
                    [i \in DOMAIN doc_chunks |->
                        ChunkRec(doc_id, filename, i - 1, doc_chunks[i], fp)]
               /\ resp' = [op |-> "upload", status |-> 200,
                           total_documents |-> Len(documents) + 1]
    /\ UNCHANGED <<provider, chunkVars, concVars>>

\* upload_documents for a file whose extension is not allowed: it is neither
\* saved nor ingested, and the error is reported (207).
UploadNotAllowed ==
    /\ Ready
    /\ resp' = [op |-> "upload", status |-> 207, total_documents |-> Len(documents)]
    /\ UNCHANGED <<storeVars, chunkVars, concVars>>

\* ------------------------------------------------------- remove_document
RemoveDocs(docs, doc_id) == LET Keep(d) == d.id # doc_id IN SelectSeq(docs, Keep)
RemoveChunks(cs, doc_id) == LET Keep(c) == c.doc_id # doc_id IN SelectSeq(cs, Keep)

\* remove_document's return value.
RemoveResult(docs, doc_id) == TRUE

\* DELETE /api/documents/<doc_id>
DeleteDocument(doc_id) ==
    /\ Ready
    /\ documents' = RemoveDocs(documents, doc_id)
    /\ chunks' = RemoveChunks(chunks, doc_id)
    /\ resp' = [op |-> "delete", doc_id |-> doc_id,
                status |-> IF RemoveResult(documents, doc_id) THEN 200 ELSE 404]
    /\ UNCHANGED <<provider, uploads, chunkVars, concVars>>

\* POST /api/clear
ClearAll ==
    /\ Ready
    /\ documents' = <<>>
    /\ chunks' = <<>>
    /\ resp' = [op |-> "clear", status |-> 200]
    /\ UNCHANGED <<provider, uploads, chunkVars, concVars>>

\* -------------------------------------------------- retrieve_relevant_chunks
\* cosine_similarity([query_embedding], chunk_embeddings)[0]
Similarities(cs, q) ==
    [i \in DOMAIN cs |-> CosineSimilarity(QueryDir(q), cs[i].embedding)]

\* np.argsort(similarities): the index orders (1-based here) that put the
\* similarities in ascending order.  The default sort kind is not stable, so
\* equal similarities may come out in any order.
RECURSIVE ArgSortOf(_, _)
ArgSortOf(sims, S) ==
    IF S = {} THEN {<<>>}
    ELSE LET least == {i \in S : \A j \in S : sims[i] <= sims[j]}
         IN UNION {{<<i>> \o rest : rest \in ArgSortOf(sims, S \ {i})} : i \in least}

ArgSort(sims) == ArgSortOf(sims, DOMAIN sims)

\* s[start:] with Python's handling of a negative or too large start.
PySliceFrom(s, start) ==
    LET n == Len(s)
        from == IF start < 0 THEN Max(n + start, 0) ELSE Min(start, n)
    IN SubSeq(s, from + 1, n)

\* s[::-1]
Reverse(s) == [i \in DOMAIN s |-> s[Len(s) + 1 - i]]

\* np.argsort(similarities)[-top_k:][::-1]
TopIndices(order, top_k) == Reverse(PySliceFrom(order, 0 - top_k))

\* The copy of a chunk that is returned: similarity added, embedding deleted.
Relevant(c, sim) ==
    [doc_id |-> c.doc_id, doc_name |-> c.doc_name, chunk_id |-> c.chunk_id,
     text |-> c.text, similarity |-> sim, src |-> c.src]

\* retrieve_relevant_chunks, given the order argsort produced.
RetrieveRelevantChunks(cs, q, top_k, order) ==
    IF cs = <<>> THEN <<>>
    ELSE LET sims == Similarities(cs, q)
             top == TopIndices(order, top_k)
         IN [k \in DOMAIN top |-> Relevant(cs[top[k]], sims[top[k]])]

\* ------------------------------------------------------- generate_answer
\* s[:n]
Prefix(s, n) == SubSeq(s, 1, Min(n, Len(s)))

\* generate_answer_simple: a header, then one part for each of the top 3.
GenerateAnswerSimple(q, ctx) ==
    LET top == Prefix(ctx, ContextChunks)
    IN [kind |-> "extractive",
        parts |-> <<[header |-> q]>> \o
                  [i \in DOMAIN top |->
                      [doc_name |-> top[i].doc_name,
                       relevance |-> top[i].similarity,
                       text |-> top[i].text]]]

\* The text a successful backend call returns.
BackendAnswer(q, ctx) ==
    [kind |-> "llm",
     parts |-> <<[prompt |-> [i \in DOMAIN Prefix(ctx, ContextChunks) |->
                                 ctx[i].doc_name], question |-> q]>>]

\* generate_answer without its except clause: a failed call is raised.
AnswerPathNoCatch(q, ctx, prov, outcome) ==
    IF prov = "none"
    THEN [answer |-> GenerateAnswerSimple(q, ctx), attempts |-> 0,
          backend |-> "none", raised |-> FALSE]
    ELSE IF outcome = "ok"
    THEN [answer |-> BackendAnswer(q, ctx), attempts |-> 1,
          backend |-> "ok", raised |-> FALSE]
    ELSE [answer |-> BackendAnswer(q, ctx), attempts |-> 1,
          backend |-> "failed", raised |-> TRUE]

\* The try/except of generate_answer: which answer is used, and how many
\* backend calls were made.  outcome is what the backend call does.
AnswerPath(q, ctx, prov, outcome) ==
    IF prov = "none"
    THEN [answer |-> GenerateAnswerSimple(q, ctx), attempts |-> 0,
          backend |-> "none", raised |-> FALSE]
    ELSE IF outcome = "ok"
    THEN [answer |-> BackendAnswer(q, ctx), attempts |-> 1,
          backend |-> "ok", raised |-> FALSE]
    ELSE [answer |-> GenerateAnswerSimple(q, ctx), attempts |-> 1,
          backend |-> "failed", raised |-> FALSE]

\* weights = [1.0, 0.8, 0.6, 0.4, 0.2], in tenths.
Weights == <<10, 8, 6, 4, 2>>

RECURSIVE WeightedSum(_, _)
WeightedSum(ctx, m) ==
    IF m = 0 THEN 0 ELSE ctx[m].similarity * Weights[m] + WeightedSum(ctx, m - 1)

RECURSIVE WeightSum(_)
WeightSum(m) == IF m = 0 THEN 0 ELSE Weights[m] + WeightSum(m - 1)

\* min(confidence * 1.15, 0.99)
Boost(c) ==
    IF c.num * 115 * 100 > 99 * c.den * 100
    THEN [num |-> 99, den |-> 100]
    ELSE [num |-> c.num * 115, den |-> c.den * 100]

\* The confidence of generate_answer for a non-empty context, as a fraction:
\* the weighted average of up to five similarities, boosted when the top
\* similarity exceeds 0.7.
Confidence(ctx) ==
    LET m == Min(Len(ctx), Len(Weights))
        avg == [num |-> WeightedSum(ctx, m), den |-> 1000 * WeightSum(m)]
    IN IF ctx[1].similarity > BoostThreshold THEN Boost(avg) ELSE avg

\* ----------------------------------------------------------------- search
\* The sources of the grounding context only.
SourcesOfContext(relevant) ==
    {relevant[i].doc_name : i \in DOMAIN Prefix(relevant, ContextChunks)}

\* sources = list(set([chunk['doc_name'] for chunk in relevant_chunks]))
Sources(relevant) == {relevant[i].doc_name : i \in DOMAIN relevant}

\* RAGEngine.search, given argsort's order and the backend's outcome.
EngineSearch(cs, q, top_k, prov, order, outcome) ==
    LET relevant == RetrieveRelevantChunks(cs, q, top_k, order)
    IN IF relevant = <<>>
       THEN [answer |-> [kind |-> "no_information", parts |-> <<[header |-> q]>>],
             sources |-> {}, confidence |-> [num |-> 0, den |-> 1],
             retrieved_chunks |-> <<>>,
             attempts |-> 0, backend |-> "unused", raised |-> FALSE]
       ELSE LET path == AnswerPath(q, relevant, prov, outcome)
            IN [answer |-> path.answer, sources |-> Sources(relevant),
                confidence |-> Confidence(relevant),
                retrieved_chunks |-> relevant,
                attempts |-> path.attempts, backend |-> path.backend,
                raised |-> path.raised]

\* POST /api/search with an integer top_k (or none: the default).
Search(q, top_k) ==
    /\ Ready
    /\ IF q = "" \/ Len(documents) = 0
       THEN resp' = [op |-> "search", status |-> 400]
       ELSE \E order \in ArgSort(Similarities(chunks, q)),
               outcome \in (IF provider = "none" THEN {"not called"} ELSE Outcomes) :
              LET r == EngineSearch(chunks, q, top_k, provider, order, outcome)
              IN resp' = IF r.raised
                         THEN [op |-> "search", status |-> 500,
                               error |-> "backend failure"]
                         ELSE [op |-> "search", status |-> 200, query |-> q,
                               top_k |-> top_k,
                               top_indices |-> TopIndices(order, top_k),
                               answer |-> r.answer, sources |-> r.sources,
                               confidence |-> r.confidence,
                               retrieved_chunks |-> r.retrieved_chunks,
                               attempts |-> r.attempts, backend |-> r.backend]
    /\ UNCHANGED <<storeVars, chunkVars, concVars>>

\* POST /api/search with a top_k that is no integer (null, a string): the
\* slice [-top_k:] raises TypeError and the handler answers 500.
SearchBadTopK(q) ==
    /\ Ready
    /\ q # "" /\ Len(documents) # 0
    /\ resp' = [op |-> "search", status |-> 500, error |-> "TypeError"]
    /\ UNCHANGED <<storeVars, chunkVars, concVars>>

Init ==
    /\ documents = <<>>
    /\ chunks = <<>>
    /\ provider \in Providers
    /\ uploads = 0
    /\ resp = NoResp
    /\ cin = <<>> /\ cout = <<>>
    /\ pcM = "idle" /\ mut = <<>> /\ pcS = "idle" /\ srch = <<>>

Next ==
    \/ \E f \in Files, n \in WordCounts : Upload(f.name, f.topic, n)
    \/ UploadNotAllowed
    \/ \E d \in DocIdInputs : DeleteDocument(d)
    \/ ClearAll
    \/ \E q \in Queries, k \in TopKs : Search(q, k)
    \/ \E q \in Queries : SearchBadTopK(q)
    \/ Reply

Spec == Init /\ [][Next]_vars
\* ------------------------------------------------------------- ChunkSpec
\* chunk_text as a pure function: the arguments are drawn at the start and
\* the call is one step.
Texts == UNION {[1..n -> Chars] : n \in 0..MaxChars}

ChunkInit ==
    /\ cin \in [text : Texts, chunk_size : 0..MaxChunkSize, overlap : 0..MaxChunkSize]
    /\ cout = [called |-> FALSE, raised |-> FALSE, chunks |-> <<>>]
    /\ documents = <<>> /\ chunks = <<>> /\ provider = "none" /\ uploads = 0
    /\ resp = NoResp
    /\ pcM = "idle" /\ mut = <<>> /\ pcS = "idle" /\ srch = <<>>

ChunkTextCall ==
    /\ ~cout.called
    /\ LET r == ChunkText(cin.text, cin.chunk_size, cin.overlap)
       IN cout' = [called |-> TRUE, raised |-> r.raised, chunks |-> r.chunks]
    /\ UNCHANGED <<documents, chunks, provider, uploads, resp, cin, pcM, mut, pcS, srch>>

ChunkNext == ChunkTextCall

ChunkSpec == ChunkInit /\ [][ChunkNext]_vars
\* -------------------------------------------------------------- ConcSpec
\* app.run() serves each request in its own thread and the engine takes no
\* lock, so the statements of a mutating request and of a search request on
\* the shared engine interleave.  One mutating request (pcM, mut) and one
\* search request (pcS, srch) are in progress at a time; each step below is
\* one statement (or one loop iteration) of the source.
\* mut.before and mut.after are history fields: the fragment list before the
\* mutating operation began and the one it leaves when it has finished.
ConcFileNames == {"a.txt"}
ConcTopics == {0}
ConcWordCounts == {3, 460}
ConcDocIds == {"0", "1"}
ConcQueries == Queries \ {""}
ConcTopKs == {1, DefaultTopK}

IdleMut == [op |-> "none"]
IdleSrch == [q |-> "", top_k |-> 0]

ConcInit ==
    /\ documents = <<>> /\ chunks = <<>> /\ provider = "none" /\ uploads = 0
    /\ resp = NoResp
    /\ cin = <<>> /\ cout = <<>>
    /\ pcM = "idle" /\ mut = IdleMut
    /\ pcS = "idle" /\ srch = IdleSrch

\* ingest_document up to self.documents.append(doc_info).
IngestAppendDoc(filename, topic, n) ==
    /\ pcM = "idle" /\ uploads < MaxConcUploads /\ n # 0
    /\ uploads' = uploads + 1
    /\ LET fp == uploads + 1
           doc_chunks == DocChunks(topic, n)
           doc_id == NextDocId(documents)
           recs == [i \in DOMAIN doc_chunks |->
                       ChunkRec(doc_id, filename, i - 1, doc_chunks[i], fp)]
       IN /\ documents' = Append(documents,
                                 DocInfo(doc_id, filename, fp, Len(doc_chunks)))
          /\ mut' = [op |-> "ingest", pending |-> recs,
                     before |-> chunks, after |-> chunks \o recs]
    /\ pcM' = "append"
    /\ UNCHANGED <<chunks, provider, resp, chunkVars, pcS, srch>>

\* One iteration of the loop of ingest_document: self.chunks.append({...}).
IngestAppendChunk ==
    /\ pcM = "append" /\ mut.pending # <<>>
    /\ chunks' = Append(chunks, Head(mut.pending))
    /\ mut' = [mut EXCEPT !.pending = Tail(@)]
    /\ pcM' = IF Tail(mut.pending) = <<>> THEN "return" ELSE "append"
    /\ UNCHANGED <<documents, provider, uploads, resp, chunkVars, pcS, srch>>

\* remove_document: self.documents = [d for d in self.documents if ...]
RemoveFilterDocs(doc_id) ==
    /\ pcM = "idle"
    /\ documents' = RemoveDocs(documents, doc_id)
    /\ mut' = [op |-> "remove", doc_id |-> doc_id,
               before |-> chunks, after |-> RemoveChunks(chunks, doc_id)]
    /\ pcM' = "filter_chunks"
    /\ UNCHANGED <<chunks, provider, uploads, resp, chunkVars, pcS, srch>>

\* remove_document: self.chunks = [c for c in self.chunks if ...]
RemoveFilterChunks ==
    /\ pcM = "filter_chunks"
    /\ chunks' = RemoveChunks(chunks, mut.doc_id)
    /\ pcM' = "return"
    /\ UNCHANGED <<documents, provider, uploads, resp, chunkVars, mut, pcS, srch>>

\* clear_all: self.documents = []
ClearDocs ==
    /\ pcM = "idle" /\ documents # <<>>
    /\ documents' = <<>>
    /\ mut' = [op |-> "clear", before |-> chunks, after |-> <<>>]
    /\ pcM' = "clear_chunks"
    /\ UNCHANGED <<chunks, provider, uploads, resp, chunkVars, pcS, srch>>

\* clear_all: self.chunks = []
ClearChunks ==
    /\ pcM = "clear_chunks"
    /\ chunks' = <<>>
    /\ pcM' = "return"
    /\ UNCHANGED <<documents, provider, uploads, resp, chunkVars, mut, pcS, srch>>

\* The mutating operation returns.
MutReturn ==
    /\ pcM = "return"
    /\ pcM' = "idle" /\ mut' = IdleMut
    /\ UNCHANGED <<documents, chunks, provider, uploads, resp, chunkVars, pcS, srch>>

\* search(): the handler's check of len(rag_engine.documents).
SearchBegin(q, top_k) ==
    /\ pcS = "idle"
    /\ IF Len(documents) = 0
       THEN /\ pcS' = "return"
            /\ srch' = [q |-> q, top_k |-> top_k, status |-> 400]
       ELSE /\ pcS' = "check"
            /\ srch' = [q |-> q, top_k |-> top_k, status |-> 0]
    /\ UNCHANGED <<storeVars, resp, chunkVars, pcM, mut>>

\* retrieve_relevant_chunks: if not self.chunks: return []
SearchCheckChunks ==
    /\ pcS = "check"
    /\ IF chunks = <<>>
       THEN /\ pcS' = "return"
            /\ srch' = [q |-> srch.q, top_k |-> srch.top_k, status |-> 200,
                        relevant |-> <<>>]
       ELSE /\ pcS' = "scan" /\ UNCHANGED srch
    /\ UNCHANGED <<storeVars, resp, chunkVars, pcM, mut>>

\* retrieve_relevant_chunks: the embeddings are read out of self.chunks, the
\* similarities and top_indices computed from them.  scanned is the list that
\* was read; atomic records whether it is the fragment list before or after
\* the mutating operation in progress (history fields).
SearchScan ==
    /\ pcS = "scan"
    /\ \E order \in ArgSort(Similarities(chunks, srch.q)) :
          srch' = [q |-> srch.q, top_k |-> srch.top_k, status |-> 0,
                   similarities |-> Similarities(chunks, srch.q),
                   top |-> TopIndices(order, srch.top_k),
                   relevant |-> <<>>,
                   scanned |-> chunks,
                   atomic |-> (pcM = "idle" \/ chunks \in {mut.before, mut.after}),
                   stale |-> FALSE]
    /\ pcS' = "read"
    /\ UNCHANGED <<storeVars, resp, chunkVars, pcM, mut>>

\* One iteration of `for idx in top_indices`: self.chunks[idx] is read from
\* the list as it is now; an index past its end raises IndexError, which the
\* handler answers with 500.  stale records a read from a list other than the
\* scanned one (history field).
SearchRead ==
    /\ pcS = "read" /\ Len(srch.relevant) < Len(srch.top)
    /\ LET idx == srch.top[Len(srch.relevant) + 1]
       IN IF idx > Len(chunks)
          THEN /\ pcS' = "return"
               /\ srch' = [srch EXCEPT !.status = 500, !.stale = TRUE]
          ELSE /\ pcS' = "read"
               /\ srch' = [srch EXCEPT
                     !.relevant = Append(@, Relevant(chunks[idx], srch.similarities[idx])),
                     !.stale = @ \/ chunks # srch.scanned]
    /\ UNCHANGED <<storeVars, resp, chunkVars, pcM, mut>>

\* The loop is over: retrieve_relevant_chunks returns.
SearchLoopEnd ==
    /\ pcS = "read" /\ Len(srch.relevant) = Len(srch.top)
    /\ pcS' = "return"
    /\ srch' = [srch EXCEPT !.status = 200]
    /\ UNCHANGED <<storeVars, resp, chunkVars, pcM, mut>>

\* The search request is answered.
SearchReturn ==
    /\ pcS = "return"
    /\ pcS' = "idle" /\ srch' = IdleSrch
    /\ UNCHANGED <<storeVars, resp, chunkVars, pcM, mut>>

ConcNext ==
    \/ \E f \in ConcFileNames, t \in ConcTopics, n \in ConcWordCounts : IngestAppendDoc(f, t, n)
    \/ IngestAppendChunk
    \/ \E d \in ConcDocIds : RemoveFilterDocs(d)
    \/ RemoveFilterChunks
    \/ ClearDocs
    \/ ClearChunks
    \/ MutReturn
    \/ \E q \in ConcQueries, k \in ConcTopKs : SearchBegin(q, k)
    \/ SearchCheckChunks
    \/ SearchScan
    \/ SearchRead
    \/ SearchLoopEnd
    \/ SearchReturn

ConcSpec == ConcInit /\ [][ConcNext]_vars
\* ============================================================ properties
IsSearchResult == resp.op = "search" /\ resp.status = 200

DocNames(s) == {s[i].doc_name : i \in DOMAIN s}

\* C1: no two documents present in the catalog have the same id.
C1_UniqueIds ==
    \A i, j \in DOMAIN documents : i # j => documents[i].id # documents[j].id

\* C2: a delete of id d removes exactly one document's catalog entry and the
\* fragments ingested for that document, leaving every other entry and
\* fragment as it was and in the same order; when d is not in the catalog,
\* catalog and store are unchanged.
C2_RemoveExactlyOne ==
    [][(Ready /\ resp'.op = "delete") =>
         LET owned == {i \in DOMAIN documents : documents[i].id = resp'.doc_id}
         IN IF owned = {}
            THEN documents' = documents /\ chunks' = chunks
            ELSE \E i \in owned :
                   LET NotIt(d) == d.filepath # documents[i].filepath
                       NotOfIt(c) == c.src # documents[i].filepath
                   IN /\ documents' = SelectSeq(documents, NotIt)
                      /\ chunks' = SelectSeq(chunks, NotOfIt)]_vars

\* C3: delete_document answers success exactly when the id was in the
\* catalog, and 'Document not found' (404) otherwise.
C3_DeleteReportsRemoval ==
    [][(Ready /\ resp'.op = "delete") =>
         LET present == \E i \in DOMAIN documents : documents[i].id = resp'.doc_id
         IN resp'.status = IF present THEN 200 ELSE 404]_vars

\* C4: fragments of equal similarity are returned earliest-inserted first,
\* and when top_k cuts through a tie the earliest-inserted ones are kept.
C4_TiesByInsertionOrder ==
    IsSearchResult =>
      LET top == resp.top_indices
          sims == Similarities(chunks, resp.query)
      IN /\ \A a, b \in DOMAIN top :
              (a < b /\ sims[top[a]] = sims[top[b]]) => top[a] < top[b]
         /\ \A k \in DOMAIN top : \A i \in DOMAIN chunks :
              (i < top[k] /\ sims[i] = sims[top[k]]) => i \in Range(top)

\* C5: the returned list has at most top_k entries (none for a top_k below
\* 1) and at most as many as there are stored fragments; for top_k >= 1 it
\* has exactly min(top_k, number of fragments) entries, in non-increasing
\* similarity.
C5_AtMostTopK ==
    IsSearchResult =>
      LET got == resp.retrieved_chunks
      IN /\ Len(got) <= Max(resp.top_k, 0)
         /\ Len(got) <= Len(chunks)
         /\ resp.top_k >= 1 =>
              /\ Len(got) = Min(resp.top_k, Len(chunks))
              /\ \A a, b \in DOMAIN got :
                   a < b => got[a].similarity >= got[b].similarity

\* C7: the confidence of a search is in [0.0, 0.99], and it is 0.0 exactly
\* when nothing was retrieved.
C7_ConfidenceRange ==
    IsSearchResult =>
      /\ resp.confidence.num >= 0
      /\ resp.confidence.num * 100 <= 99 * resp.confidence.den
      /\ (resp.confidence.num = 0) <=> (resp.retrieved_chunks = <<>>)

\* C8 (as stated): the sources are the distinct document names of the top 3
\* results only.
C8_SourcesAreTop3 ==
    (IsSearchResult /\ resp.retrieved_chunks # <<>>) =>
      resp.sources = DocNames(Prefix(resp.retrieved_chunks, ContextChunks))

\* C8 (amended): the sources are the distinct document names of all the
\* retrieved results, those ranked 4th or lower included.
C8_SourcesAreAllRetrieved ==
    (IsSearchResult /\ resp.retrieved_chunks # <<>>) =>
      resp.sources = DocNames(resp.retrieved_chunks)

\* C8 witness: a search whose 4th result comes from a document that has none of the top 3.
C8_FourthRankedSource ==
    /\ IsSearchResult
    /\ Len(resp.retrieved_chunks) >= 4
    /\ resp.retrieved_chunks[4].doc_name
         \notin DocNames(Prefix(resp.retrieved_chunks, ContextChunks))
    /\ resp.retrieved_chunks[4].doc_name \in resp.sources

\* C9: with results retrieved, when no backend is configured or the one
\* backend call fails, no further call is made, the answer is the extractive
\* one and is not empty, a confidence is returned, and the failure is not
\* surfaced (the search is never answered with a backend error).
C9_FallbackOnFailure ==
    /\ (resp.op = "search" /\ resp.status = 500) => resp.error = "TypeError"
    /\ (IsSearchResult /\ resp.retrieved_chunks # <<>>
          /\ resp.backend \in {"none", "failed"}) =>
         /\ resp.attempts = (IF resp.backend = "none" THEN 0 ELSE 1)
         /\ resp.answer.kind = "extractive"
         /\ Len(resp.answer.parts) >= 1
         /\ resp.answer = GenerateAnswerSimple(resp.query, resp.retrieved_chunks)
         /\ resp.confidence.den > 0

\* C9 witness: a search answered extractively after the backend call failed.
C9_FailedCallAnswered ==
    /\ IsSearchResult
    /\ resp.backend = "failed"
    /\ resp.attempts = 1
    /\ resp.answer.kind = "extractive"

\* C6: a text of at least one word and fewer words than chunk_size (with
\* overlap < chunk_size) yields exactly one fragment, holding all its words
\* in order.
C6_ShortTextOneFragment ==
    (/\ cout.called
     /\ Len(Split(cin.text)) >= 1
     /\ Len(Split(cin.text)) < cin.chunk_size
     /\ cin.overlap < cin.chunk_size) =>
       /\ ~cout.raised
       /\ Len(cout.chunks) = 1
       /\ Split(cout.chunks[1]) = Split(cin.text)

\* C10: the ranking scan of a search reads the fragment list as it is
\* before or after a concurrent mutating operation, never in between, and
\* every fragment it returns is read from the list the indices were
\* computed on.
C10_ScanSerialized ==
    (pcS \in {"read", "return"} /\ "scanned" \in DOMAIN srch) =>
       srch.atomic /\ ~srch.stale
====
